---- MODULE Spec2Model ----
(***************************************************************************)
(* Model of the clip planner and segment allocator of StudioEditor         *)
(* (src/src/video_editor.py).                                              *)
(*                                                                         *)
(* Time is counted in quarter seconds, so that durations below the         *)
(* allocator's 0.5 s threshold exist: 0.5 s = 2, MIN = 1.5 s = 6,          *)
(* MAX = 4.0 s = 16.                                                       *)
(***************************************************************************)
EXTENDS Integers, Sequences, FiniteSets, TLC

VARIABLES
    audio_segments,   \* the AudioSegment list: <<[duration, exists]>>
    video_assets,     \* the VideoAsset list: <<[present, file_path]>>
    video_files,      \* the disk: file path -> duration of the video file
    used,             \* StudioEditor._used_video_segments: path -> <<start, end>> list
    clip_parts,       \* _plan_clip_splits' local list clip_parts
    i,                \* the loop index of _plan_clip_splits (1-based)
    planned_from,     \* history, one entry per clip part: the allocator table and
                      \* the candidate pool at the moment the part was planned, the
                      \* duration asked of the allocator (clip_duration), the length
                      \* of the range it answered (actual), whether the answer was
                      \* taken (found) and, in split mode, the audio left (remaining)
                      \* and the pool counter (video_idx) when the slice began
    pc,               \* "idle" | "planning" | "planned" | "assembling" | "done"
    caller,           \* "render" | "preview": who called _plan_clip_splits
    output,           \* what render_video returned: "pending" | "none" | "path"
    stats,            \* the dict the last get_render_preview returned
    report,           \* the message run_pipeline returned for this session
    peer,             \* a second session that uses the same editor
    acquired,         \* history: the calls of _get_available_segment and their results
    texts,            \* generate_all_segments: outcome of the synthesis of each text
    results,          \* generate_all_segments: the list results
    keywords,         \* get_videos_for_keywords: the keyword list
    downloads,        \* get_videos_for_keywords: the task of each unique keyword
    final_results     \* get_videos_for_keywords: the returned list

vars == <<audio_segments, video_assets, video_files, used, clip_parts, i, planned_from, pc,
          caller, output, stats, report, peer, acquired, texts, results, keywords,
          downloads, final_results>>

\* the allocator on its own, the TTS stage and the asset stage
stages == <<acquired, texts, results, keywords, downloads, final_results>>

\* what a render or a preview of this session never touches
elsewhere == <<report, peer, stages>>

---------------------------------------------------------------------------
(* Configuration and literals of the code, in quarter seconds.             *)

MAX_CLIP == 16      \* config.max_clip_duration, 4.0 s
MIN_CLIP == 6       \* config.min_clip_duration, 1.5 s
HALF == 2           \* the 0.5 s literal of the allocator and of the split loop
MAX_CLIPS == 10     \* max_clips, the safety limit of the split loop

(* Bounds of the model. *)
MaxSegs == 3        \* longest script, in segments
MaxAudio == 170     \* longest narration of the one-segment inputs
MaxCalls == 5       \* most calls of the allocator on one table
MaxTexts == 3       \* most texts given to the TTS stage
MaxKeywords == 4    \* most keywords given to the asset stage

Min(a, b) == IF a < b THEN a ELSE b

---------------------------------------------------------------------------
(* The disk and the assets.  File path 0 is a path with no file behind it. *)

FileDurations == <<12, 40>>

Files == 1 .. Len(FileDurations)

NullAsset == [present |-> FALSE, file_path |-> 0]

Asset(p) == [present |-> TRUE, file_path |-> p]

\* VideoAsset.exists(): os.path.exists(self.file_path)
AssetExists(v, disk) == v.file_path \in DOMAIN disk

\* `v and v.exists()`
ValidAsset(v, disk) == v.present /\ AssetExists(v, disk)

ClipPart(vp, ap, st, d, split, vs) ==
    [video_path |-> vp, audio_path |-> ap, start_time |-> st, duration |-> d,
     is_split |-> split, video_start |-> vs]

---------------------------------------------------------------------------
(* The segment allocator: StudioEditor._get_available_segment.             *)

\* Python's tuple order on (start, end), as sorted(used_ranges) uses it
RangeLeq(a, b) == a[1] < b[1] \/ (a[1] = b[1] /\ a[2] <= b[2])

RECURSIVE InsertRange(_, _)
InsertRange(r, s) ==
    IF s = <<>> THEN <<r>>
    ELSE IF RangeLeq(r, Head(s)) THEN <<r>> \o s
    ELSE <<Head(s)>> \o InsertRange(r, Tail(s))

RECURSIVE SortedRanges(_)
SortedRanges(s) == IF s = <<>> THEN <<>> ELSE InsertRange(Head(s), SortedRanges(Tail(s)))

RECURSIVE EndsBelow_Padded(_, _)
\* faulty variant of EndsBelow: the starts lie 0.5 s behind the ends
EndsBelow_Padded(s, video_duration) ==
    IF s = <<>> THEN <<>>
    ELSE IF Head(s)[2] < video_duration
         THEN <<Head(s)[2] + HALF>> \o EndsBelow_Padded(Tail(s), video_duration)
         ELSE EndsBelow_Padded(Tail(s), video_duration)

RECURSIVE EndsBelow(_, _)
EndsBelow(s, video_duration) ==
    IF s = <<>> THEN <<>>
    ELSE IF Head(s)[2] < video_duration
         THEN <<Head(s)[2]>> \o EndsBelow(Tail(s), video_duration)
         ELSE EndsBelow(Tail(s), video_duration)

\* faulty variant of PotentialStarts: only 0.0 is tried
PotentialStarts_OnlyZero(used_ranges, video_duration) == <<0>>

\* potential_starts: 0.0, then the ends of the used ranges that are < video_duration
PotentialStarts(used_ranges, video_duration) ==
    <<0>> \o EndsBelow(SortedRanges(used_ranges), video_duration)

\* faulty variant of Overlaps: no overlap is ever seen
Overlaps_Never(start, end, used_ranges) == FALSE

\* `not (end <= used_start or start >= used_end)` for some used range
Overlaps(start, end, used_ranges) ==
    \E k \in 1 .. Len(used_ranges) :
        ~(end <= used_ranges[k][1] \/ start >= used_ranges[k][2])

\* faulty variant of CandidateEnd: the range is not cut at the end of the file
CandidateEnd_Uncut(start, video_duration, needed_duration) == start + needed_duration

\* end = min(start + needed_duration, video_duration)
CandidateEnd(start, video_duration, needed_duration) ==
    Min(start + needed_duration, video_duration)

\* faulty variant of TooShort: no candidate is too short
TooShort_Never(actual_duration) == FALSE

\* `if actual_duration < 0.5: continue`
TooShort(actual_duration) == actual_duration < HALF

\* a candidate start the scan returns on
Accepted(start, used_ranges, video_duration, needed_duration) ==
    /\ ~TooShort(CandidateEnd(start, video_duration, needed_duration) - start)
    /\ ~Overlaps(start, CandidateEnd(start, video_duration, needed_duration), used_ranges)

RECURSIVE FirstAccepted(_, _, _, _)
\* `for start in potential_starts`: the first accepted start, or -1 when there is none
FirstAccepted(starts, used_ranges, video_duration, needed_duration) ==
    IF starts = <<>> THEN -1
    ELSE IF Accepted(Head(starts), used_ranges, video_duration, needed_duration)
         THEN Head(starts)
         ELSE FirstAccepted(Tail(starts), used_ranges, video_duration, needed_duration)

\* the range is marked as used and returned
Claim(tbl, video_path, start, end) ==
    [start |-> start, actual |-> end - start,
     used |-> [tbl EXCEPT ![video_path] = Append(@, <<start, end>>)]]

\* the last line: the range handed out when no candidate was accepted
LastResort(tbl, video_duration, needed_duration) ==
    [start |-> 0, actual |-> Min(needed_duration, video_duration), used |-> tbl]

\* faulty variant of Allocate: the last-resort range is marked as used too
Allocate_TrackedLastResort(start, tbl, video_path, video_duration, needed_duration) ==
    IF start >= 0
    THEN Claim(tbl, video_path, start, CandidateEnd(start, video_duration, needed_duration))
    ELSE Claim(tbl, video_path, 0, Min(needed_duration, video_duration))

\* what the call returns, given the start the scan stopped on
Allocate(start, tbl, video_path, video_duration, needed_duration) ==
    IF start >= 0
    THEN Claim(tbl, video_path, start, CandidateEnd(start, video_duration, needed_duration))
    ELSE LastResort(tbl, video_duration, needed_duration)

\* the whole call: the returned (start, actual_duration) and the table after it
GetAvailableSegment(tbl, video_path, video_duration, needed_duration) ==
    Allocate(FirstAccepted(PotentialStarts(tbl[video_path], video_duration),
                           tbl[video_path], video_duration, needed_duration),
             tbl, video_path, video_duration, needed_duration)

---------------------------------------------------------------------------
(* Split mode: StudioEditor._create_split_clips.                           *)

RECURSIVE AddUnseen(_, _, _)
\* append to pool the valid assets of vs whose file_path is not in it yet
AddUnseen(pool, vs, disk) ==
    IF vs = <<>> THEN pool
    ELSE IF ValidAsset(Head(vs), disk)
            /\ \A k \in 1 .. Len(pool) : pool[k] # Head(vs).file_path
         THEN AddUnseen(Append(pool, Head(vs).file_path), Tail(vs), disk)
         ELSE AddUnseen(pool, Tail(vs), disk)

\* faulty variant of VideoPool: the videos of the whole render come before the
\* videos of the later script indices
VideoPool_AllFirst(primary_video, fallback_videos, all_video_assets, disk) ==
    AddUnseen(AddUnseen(AddUnseen(<<>>, <<primary_video>>, disk), all_video_assets, disk),
              fallback_videos, disk)

\* video_pool, as file paths: primary, then fallback_videos, then all_video_assets
VideoPool(primary_video, fallback_videos, all_video_assets, disk) ==
    AddUnseen(AddUnseen(AddUnseen(<<>>, <<primary_video>>, disk), fallback_videos, disk),
              all_video_assets, disk)

\* faulty variant of SliceDuration: the slice is the whole of the remaining audio
SliceDuration_Whole(remaining_duration) == remaining_duration

\* faulty variant of SliceDuration: the clamp also raises the last remainder
SliceDuration_ClampLast(remaining_duration) ==
    IF Min(MAX_CLIP, remaining_duration) < MIN_CLIP
    THEN MIN_CLIP ELSE Min(MAX_CLIP, remaining_duration)

\* clip_duration = min(max, remaining), raised to min by the clamp
SliceDuration(remaining_duration) ==
    IF Min(MAX_CLIP, remaining_duration) < MIN_CLIP /\ remaining_duration > MIN_CLIP
    THEN MIN_CLIP ELSE Min(MAX_CLIP, remaining_duration)

\* `if actual_duration >= 0.5: found_segment = True`
Found(actual_duration) == actual_duration >= HALF

\* max_attempts = len(video_pool) * 2
MaxAttempts(pool) == Len(pool) * 2

\* current_video = video_pool[video_idx % len(video_pool)]
PoolAt(pool, video_idx) == pool[(video_idx % Len(pool)) + 1]

RECURSIVE FindSegment(_, _, _, _, _, _)
\* one attempt, given the allocator's answer r for the pool's current video
Attempt(r, disk, pool, video_idx, attempts, clip_duration) ==
    IF Found(r.actual)
    THEN [found |-> TRUE, used |-> r.used, video_idx |-> video_idx + 1,
          video_path |-> PoolAt(pool, video_idx), start |-> r.start, actual |-> r.actual]
    ELSE FindSegment(r.used, disk, pool, video_idx + 1, attempts + 1, clip_duration)

\* the inner while loop: cycles the pool until the allocator's answer is long enough
FindSegment(tbl, disk, pool, video_idx, attempts, clip_duration) ==
    IF attempts >= MaxAttempts(pool)
    THEN [found |-> FALSE, used |-> tbl, video_idx |-> video_idx,
          video_path |-> pool[1], start |-> 0, actual |-> clip_duration]
    ELSE Attempt(GetAvailableSegment(tbl, PoolAt(pool, video_idx),
                                     disk[PoolAt(pool, video_idx)], clip_duration),
                 disk, pool, video_idx, attempts, clip_duration)

\* faulty variant of SplitContinues: the limit of max_clips slices is not applied
SplitContinues_NoLimit(remaining_duration, clips_created) == remaining_duration > 0

\* faulty variant of SplitContinues: the loop goes on with nothing remaining
SplitContinues_AtZero(remaining_duration, clips_created) ==
    remaining_duration >= 0 /\ clips_created < MAX_CLIPS

\* `while remaining_duration > 0 and clips_created < max_clips`
SplitContinues(remaining_duration, clips_created) ==
    remaining_duration > 0 /\ clips_created < MAX_CLIPS

\* faulty variant of SlicePart: every slice is put at the start of the audio
SlicePart_AtZero(r, audio_path, time_offset, clip_duration) ==
    ClipPart(r.video_path, audio_path, 0, Min(r.actual, clip_duration), TRUE, r.start)

\* faulty variant of SlicePart: the slice keeps the duration asked for when the
\* range found is shorter
SlicePart_Uncut(r, audio_path, time_offset, clip_duration) ==
    ClipPart(r.video_path, audio_path, time_offset, clip_duration, TRUE, r.start)

\* the ClipPart of one slice: from the found range, or else (the fallback) from the
\* start of the pool's first video; r.actual is clip_duration when nothing was found
SlicePart(r, audio_path, time_offset, clip_duration) ==
    ClipPart(r.video_path, audio_path, time_offset, Min(r.actual, clip_duration),
             TRUE, r.start)

\* faulty variant of AfterSlice: the audio is advanced by the slice asked for, not by the
\* shorter range that was found
AfterSlice_NoShrink(st, r, pool, audio_path, clip_duration) ==
    [remaining |-> st.remaining - clip_duration,
     time_offset |-> st.time_offset + clip_duration,
     video_idx |-> r.video_idx,
     clips_created |-> st.clips_created + 1,
     parts |-> Append(st.parts, SlicePart(r, audio_path, st.time_offset, clip_duration)),
     from |-> Append(st.from, [used |-> st.used, pool |-> pool,
                               remaining |-> st.remaining,
                               video_idx |-> st.video_idx,
                               clip_duration |-> clip_duration,
                               found |-> r.found, actual |-> r.actual]),
     used |-> r.used]

\* the loop's state after one slice, given the inner loop's result r
AfterSlice(st, r, pool, audio_path, clip_duration) ==
    [remaining |-> st.remaining - Min(r.actual, clip_duration),
     time_offset |-> st.time_offset + Min(r.actual, clip_duration),
     video_idx |-> r.video_idx,
     clips_created |-> st.clips_created + 1,
     parts |-> Append(st.parts, SlicePart(r, audio_path, st.time_offset, clip_duration)),
     from |-> Append(st.from, [used |-> st.used, pool |-> pool,
                               remaining |-> st.remaining,
                               video_idx |-> st.video_idx,
                               clip_duration |-> clip_duration,
                               found |-> r.found, actual |-> r.actual]),
     used |-> r.used]

RECURSIVE SplitLoop(_, _, _, _)
\* the outer while loop; st = [remaining, time_offset, video_idx, clips_created,
\* parts, from, used]
SplitLoop(st, disk, pool, audio_path) ==
    IF ~SplitContinues(st.remaining, st.clips_created) THEN st
    ELSE SplitLoop(AfterSlice(st,
                              FindSegment(st.used, disk, pool, st.video_idx, 0,
                                          SliceDuration(st.remaining)),
                              pool, audio_path, SliceDuration(st.remaining)),
                   disk, pool, audio_path)

\* the loop's state on entry
SplitStart(tbl, audio_duration) ==
    [remaining |-> audio_duration, time_offset |-> 0, video_idx |-> 0,
     clips_created |-> 0, parts |-> <<>>, from |-> <<>>, used |-> tbl]

\* the loop over a pool; an empty pool returns no parts
SplitOver(pool, tbl, disk, audio_duration, audio_path) ==
    IF pool = <<>> THEN SplitStart(tbl, audio_duration)
    ELSE SplitLoop(SplitStart(tbl, audio_duration), disk, pool, audio_path)

\* the whole call: the parts of one segment and the table after them
CreateSplitClips(tbl, disk, audio_duration, audio_path, primary_video, fallback_videos, all_video_assets) ==
    SplitOver(VideoPool(primary_video, fallback_videos, all_video_assets, disk),
              tbl, disk, audio_duration, audio_path)

---------------------------------------------------------------------------
(* The planner: one iteration of the loop of StudioEditor._plan_clip_splits.*)

\* faulty variant of SkipNoAudio: only a negative duration is skipped
SkipNoAudio_Negative(audio) == audio.duration < 0

\* `if audio_duration <= 0: continue`
SkipNoAudio(audio) == audio.duration <= 0

\* current_video = video_assets[i] if i < len(video_assets) else None
CurrentVideo(videos, k) == IF k <= Len(videos) THEN videos[k] ELSE NullAsset

\* `if not current_video or not current_video.exists(): continue`
SkipNoVideo(current_video, disk) == ~current_video.present \/ ~AssetExists(current_video, disk)

\* faulty variant of SplitMode: a segment of exactly MAX is split too
SplitMode_FromMax(audio_duration) == audio_duration >= MAX_CLIP

\* `if audio_duration > self.max_clip_duration`
SplitMode(audio_duration) == audio_duration > MAX_CLIP

\* `elif audio_duration < self.min_clip_duration`
ExtendMode(audio_duration) == ~SplitMode(audio_duration) /\ audio_duration < MIN_CLIP

\* all_valid_videos = [v for v in video_assets if v and v.exists()]
AllValidVideos(videos, disk) == SelectSeq(videos, LAMBDA v : ValidAsset(v, disk))

\* fallback_videos = video_assets[i+1:]
FallbackVideos(videos, k) == SubSeq(videos, k + 1, Len(videos))

\* faulty variant of ExtendDuration: the part is not extended
ExtendDuration_NotExtended(audio_duration) == audio_duration

\* the duration the extend branch asks the allocator for and gives the part
ExtendDuration(audio_duration) == MIN_CLIP

\* faulty variant of NormalDuration: the part is cut to the minimum
NormalDuration_Min(audio_duration) == MIN_CLIP

\* the duration the normal branch asks the allocator for and gives the part
NormalDuration(audio_duration) == audio_duration

\* the one ClipPart of the extend and of the normal branch, given the allocator's
\* answer r
OnePart(r, tbl, video_path, audio_path, duration) ==
    [parts |-> <<ClipPart(video_path, audio_path, 0, duration, FALSE, r.start)>>,
     from |-> <<[used |-> tbl, pool |-> <<video_path>>, clip_duration |-> duration,
                 found |-> TRUE, actual |-> r.actual]>>,
     used |-> r.used]

\* the extend and the normal branch: one allocator call, one ClipPart
SingleClip(tbl, disk, video_path, audio_path, duration) ==
    OnePart(GetAvailableSegment(tbl, video_path, disk[video_path], duration),
            tbl, video_path, audio_path, duration)

\* the branch iteration k takes
Branch(disk, audios, videos, k) ==
    IF SkipNoAudio(audios[k]) THEN "skip_audio"
    ELSE IF SkipNoVideo(CurrentVideo(videos, k), disk) THEN "skip_video"
    ELSE IF SplitMode(audios[k].duration) THEN "split"
    ELSE IF ExtendMode(audios[k].duration) THEN "extend"
    ELSE "normal"

\* `continue`: nothing is appended, the table is as it was
Skipped(tbl) == [parts |-> <<>>, from |-> <<>>, used |-> tbl]

\* iteration k of the loop: the parts it appends and the table after it
PlanSegment(tbl, disk, audios, videos, k) ==
    CASE Branch(disk, audios, videos, k) \in {"skip_audio", "skip_video"} ->
           Skipped(tbl)
      [] Branch(disk, audios, videos, k) = "split" ->
           CreateSplitClips(tbl, disk, audios[k].duration, k, CurrentVideo(videos, k),
                            FallbackVideos(videos, k), AllValidVideos(videos, disk))
      [] Branch(disk, audios, videos, k) = "extend" ->
           SingleClip(tbl, disk, CurrentVideo(videos, k).file_path, k,
                      ExtendDuration(audios[k].duration))
      [] Branch(disk, audios, videos, k) = "normal" ->
           SingleClip(tbl, disk, CurrentVideo(videos, k).file_path, k,
                      NormalDuration(audios[k].duration))

\* self._used_video_segments = {}: no range of any file is claimed
ResetUsedSegments(disk) == [p \in DOMAIN disk |-> <<>>]

\* _plan_clip_splits from index k on: the loop over the script
RECURSIVE PlanFrom(_, _, _, _, _, _)

\* the rest of the loop, given what iteration k planned
PlanRest(r, disk, audios, videos, k, parts) ==
    PlanFrom(r.used, disk, audios, videos, k + 1, parts \o r.parts)

PlanFrom(tbl, disk, audios, videos, k, parts) ==
    IF k > Len(audios)
    THEN [parts |-> parts, used |-> tbl]
    ELSE PlanRest(PlanSegment(tbl, disk, audios, videos, k), disk, audios, videos, k, parts)

\* the list _plan_clip_splits returns when it runs on a table that was just reset
PlanClipSplits(disk, audios, videos) ==
    PlanFrom(ResetUsedSegments(disk), disk, audios, videos, 1, <<>>).parts

\* sum(p.duration for p in clip_parts)
RECURSIVE SumDurations(_)
SumDurations(parts) ==
    IF parts = <<>> THEN 0 ELSE Head(parts).duration + SumDurations(Tail(parts))

\* faulty variant of SplitCount: every part is counted
SplitCount_All(parts) == Len(parts)

\* sum(1 for p in clip_parts if p.is_split)
SplitCount(parts) == Len(SelectSeq(parts, LAMBDA p : p.is_split))

\* the dict get_render_preview returns; the script has one segment per AudioSegment
PreviewStats(total_segments, parts) ==
    [total_segments |-> total_segments, total_clip_parts |-> Len(parts),
     total_duration |-> SumDurations(parts), split_clips |-> SplitCount(parts)]

---------------------------------------------------------------------------
(* Inputs.  Scripts of up to MaxSegs segments over the two files of        *)
(* FileDurations, and one-segment scripts with every narration length up   *)
(* to MaxAudio over one file of several lengths (the asset list may be     *)
(* shorter than the script there).                                         *)

AudioSegment(d, e) == [duration |-> d, exists |-> e]

ScriptAudio ==
    {AudioSegment(0, FALSE), AudioSegment(5, TRUE), AudioSegment(10, TRUE),
     AudioSegment(38, TRUE)}

ScriptVideos == {NullAsset} \cup {Asset(p) : p \in 0 .. Len(FileDurations)}

OneFileDurations == {0, 1, 2, 10, 16, 40, 200}

\* get_render_preview has not returned anything yet
NoStats == [total_segments |-> -1, total_clip_parts |-> -1, total_duration |-> -1,
            split_clips |-> -1]

\* no second session
NoPeer == [pc |-> "absent", audio_segments |-> <<>>, video_assets |-> <<>>,
           clip_parts |-> <<>>, output |-> "pending", report |-> "pending"]

\* neither the allocator alone, nor the TTS stage, nor the asset stage is at work
StagesIdle ==
    /\ acquired = <<>>
    /\ texts = <<>>
    /\ results = <<>>
    /\ keywords = <<>>
    /\ downloads = <<>>
    /\ final_results = <<>>

\* the scripts: audio and assets of up to MaxSegs segments over FileDurations; the
\* longest scripts have no asset whose file is missing
ScriptInputs ==
    \E n \in 0 .. MaxSegs :
        /\ audio_segments \in [1 .. n -> ScriptAudio]
        /\ video_assets \in
               [1 .. n -> IF n < MaxSegs THEN ScriptVideos ELSE ScriptVideos \ {Asset(0)}]
        /\ video_files = FileDurations

\* one segment of every narration length over one file
OneSegmentInputs ==
    /\ audio_segments \in {<<AudioSegment(d, e)>> : d \in -1 .. MaxAudio, e \in BOOLEAN}
    /\ video_assets \in {<<>>, <<NullAsset>>, <<Asset(0)>>, <<Asset(1)>>}
    /\ video_files \in {<<d>> : d \in OneFileDurations}

\* StudioEditor() has just been constructed and no call has been made
EditorIdle ==
    /\ used = ResetUsedSegments(video_files)
    /\ clip_parts = <<>>
    /\ planned_from = <<>>
    /\ i = 1
    /\ pc = "idle"
    /\ caller = "render"
    /\ output = "pending"
    /\ stats = NoStats
    /\ report = "pending"

Init ==
    /\ ScriptInputs \/ OneSegmentInputs
    /\ EditorIdle
    /\ peer = NoPeer
    /\ StagesIdle

inputs == <<audio_segments, video_assets, video_files>>

---------------------------------------------------------------------------
(* Actions.                                                                *)

\* faulty variant of StartPlan: the table of the previous call is kept
StartPlan_NoReset ==
    /\ pc \in {"idle", "done"}
    /\ used' = used
    /\ clip_parts' = <<>>
    /\ planned_from' = <<>>
    /\ i' = 1
    /\ pc' = "planning"
    /\ output' = "pending"
    /\ UNCHANGED <<audio_segments, video_assets, video_files, elsewhere>>

\* _plan_clip_splits is entered: the table is reset, clip_parts = []
StartPlan ==
    /\ pc \in {"idle", "done"}
    /\ used' = ResetUsedSegments(video_files)
    /\ clip_parts' = <<>>
    /\ planned_from' = <<>>
    /\ i' = 1
    /\ pc' = "planning"
    /\ output' = "pending"
    /\ UNCHANGED <<inputs, elsewhere>>

\* render_video calls the planner
RenderVideo ==
    /\ caller' = "render"
    /\ stats' = stats
    /\ StartPlan

\* get_render_preview calls the planner
GetRenderPreview ==
    /\ caller' = "preview"
    /\ stats' = NoStats
    /\ StartPlan

\* faulty variant of Iterated: the new parts are put in front of the list
Iterated_InFront(r) ==
    /\ clip_parts' = r.parts \o clip_parts
    /\ planned_from' = r.from \o planned_from
    /\ used' = r.used
    /\ i' = i + 1
    /\ UNCHANGED <<audio_segments, video_assets, video_files, pc, caller, output, stats,
                   elsewhere>>

\* the effect of one iteration of the planner's loop, given what it planned
Iterated(r) ==
    /\ clip_parts' = clip_parts \o r.parts
    /\ planned_from' = planned_from \o r.from
    /\ used' = r.used
    /\ i' = i + 1
    /\ UNCHANGED <<inputs, pc, caller, output, stats, elsewhere>>

\* the loop has an iteration left, and it takes branch b
AtBranch(b) ==
    /\ pc = "planning"
    /\ i <= Len(audio_segments)
    /\ Branch(video_files, audio_segments, video_assets, i) = b

\* the segment has no audio: skipped
PlanSkipAudio ==
    /\ AtBranch("skip_audio")
    /\ Iterated(PlanSegment(used, video_files, audio_segments, video_assets, i))

\* the segment has no video asset: skipped
PlanSkipVideo ==
    /\ AtBranch("skip_video")
    /\ Iterated(PlanSegment(used, video_files, audio_segments, video_assets, i))

\* split mode
PlanSplit ==
    /\ AtBranch("split")
    /\ Iterated(PlanSegment(used, video_files, audio_segments, video_assets, i))

\* extend mode
PlanExtend ==
    /\ AtBranch("extend")
    /\ Iterated(PlanSegment(used, video_files, audio_segments, video_assets, i))

\* normal mode
PlanNormal ==
    /\ AtBranch("normal")
    /\ Iterated(PlanSegment(used, video_files, audio_segments, video_assets, i))

\* `return clip_parts`
PlanReturn ==
    /\ pc = "planning"
    /\ i > Len(audio_segments)
    /\ pc' = "planned"
    /\ UNCHANGED <<inputs, used, clip_parts, planned_from, i, caller, output, stats, elsewhere>>

\* faulty variant of RenderNoParts: an empty plan goes on to the assembly
RenderNoParts_Assembles ==
    /\ pc = "planned" /\ caller = "render"
    /\ clip_parts = <<>>
    /\ pc' = "assembling"
    /\ UNCHANGED <<audio_segments, video_assets, video_files, used, clip_parts,
                   planned_from, i, caller, output, stats, elsewhere>>

\* render_video: `if not clip_parts: return None`
RenderNoParts ==
    /\ pc = "planned" /\ caller = "render"
    /\ clip_parts = <<>>
    /\ output' = "none"
    /\ pc' = "done"
    /\ UNCHANGED <<inputs, used, clip_parts, planned_from, i, caller, stats, elsewhere>>

\* render_video goes on to build the clips
RenderAssemble ==
    /\ pc = "planned" /\ caller = "render"
    /\ clip_parts # <<>>
    /\ pc' = "assembling"
    /\ UNCHANGED <<inputs, used, clip_parts, planned_from, i, caller, output, stats, elsewhere>>

\* write_videofile succeeded: the output path is returned
RenderWritten ==
    /\ pc = "assembling"
    /\ output' = "path"
    /\ pc' = "done"
    /\ UNCHANGED <<inputs, used, clip_parts, planned_from, i, caller, stats, elsewhere>>

\* no clip could be prepared, or write_videofile raised: None is returned
RenderError ==
    /\ pc = "assembling"
    /\ output' = "none"
    /\ pc' = "done"
    /\ UNCHANGED <<inputs, used, clip_parts, planned_from, i, caller, stats, elsewhere>>

\* get_render_preview returns its statistics
PreviewReturn ==
    /\ pc = "planned" /\ caller = "preview"
    /\ stats' = PreviewStats(Len(audio_segments), clip_parts)
    /\ output' = "preview"
    /\ pc' = "done"
    /\ UNCHANGED <<inputs, used, clip_parts, planned_from, i, caller, elsewhere>>

\* success_audio = sum(1 for a in audio_segments if a.exists())
SuccessAudio(audios) == Cardinality({k \in DOMAIN audios : audios[k].exists})

\* success_video = sum(1 for v in video_assets if v is not None and v.exists())
SuccessVideo(videos, disk) ==
    Cardinality({k \in DOMAIN videos : ValidAsset(videos[k], disk)})

\* the messages run_pipeline returns
MsgNoAudio == "Gagal generate audio. Periksa TTS engine."
MsgNoVideo == "Gagal download video assets. Periksa API keys."
MsgNoRender == "Gagal render video."
MsgSaved == "Video tersimpan"

\* run_pipeline gets past phases 3 and 4: some audio file and some video file exist
ReachesAssembly(audios, videos, disk) ==
    SuccessAudio(audios) > 0 /\ SuccessVideo(videos, disk) > 0

\* run_pipeline: `if success_audio == 0: return ...`
PipelineNoAudio ==
    /\ pc = "idle"
    /\ SuccessAudio(audio_segments) = 0
    /\ report' = MsgNoAudio
    /\ pc' = "ended"
    /\ UNCHANGED <<inputs, used, clip_parts, planned_from, i, caller, output, stats, peer,
                   stages>>

\* run_pipeline: `if success_video == 0: return ...`
PipelineNoVideo ==
    /\ pc = "idle"
    /\ SuccessAudio(audio_segments) > 0
    /\ SuccessVideo(video_assets, video_files) = 0
    /\ report' = MsgNoVideo
    /\ pc' = "ended"
    /\ UNCHANGED <<inputs, used, clip_parts, planned_from, i, caller, output, stats, peer,
                   stages>>

\* run_pipeline: `if not output_path: return ...`
PipelineNoRender ==
    /\ pc = "done" /\ caller = "render"
    /\ ReachesAssembly(audio_segments, video_assets, video_files)
    /\ output = "none"
    /\ report' = MsgNoRender
    /\ pc' = "ended"
    /\ UNCHANGED <<inputs, used, clip_parts, planned_from, i, caller, output, stats, peer,
                   stages>>

\* run_pipeline: the video was rendered
PipelineSaved ==
    /\ pc = "done" /\ caller = "render"
    /\ ReachesAssembly(audio_segments, video_assets, video_files)
    /\ output = "path"
    /\ report' = MsgSaved
    /\ pc' = "ended"
    /\ UNCHANGED <<inputs, used, clip_parts, planned_from, i, caller, output, stats, peer,
                   stages>>

Next ==
    \/ RenderVideo
    \/ GetRenderPreview
    \/ PlanSkipAudio
    \/ PlanSkipVideo
    \/ PlanSplit
    \/ PlanExtend
    \/ PlanNormal
    \/ PlanReturn
    \/ RenderNoParts
    \/ RenderAssemble
    \/ RenderWritten
    \/ RenderError
    \/ PreviewReturn
    \/ PipelineNoAudio
    \/ PipelineNoVideo
    \/ PipelineNoRender
    \/ PipelineSaved

Spec == Init /\ [][Next]_vars

---------------------------------------------------------------------------
(* Scripts with one long segment over a disk of three files, one of them   *)
(* shorter than 0.5 s: the candidate pools of _create_split_clips.         *)

PoolDisk == <<1, 12, 40>>

\* the narration of the long segment, and of the segments around it
PoolSplitAudio == {AudioSegment(29, TRUE), AudioSegment(29, FALSE)}
PoolOtherAudio == {AudioSegment(0, FALSE), AudioSegment(5, TRUE), AudioSegment(10, TRUE)}

PoolVideos == {NullAsset} \cup {Asset(p) : p \in DOMAIN PoolDisk}

PoolInputs ==
    \E k \in 1 .. MaxSegs :
        /\ audio_segments \in
               {a \in [1 .. MaxSegs -> PoolSplitAudio \cup PoolOtherAudio] :
                    /\ \A n \in 1 .. MaxSegs : a[n] \in PoolSplitAudio <=> n = k
                    /\ a[k].exists \/ \A n \in 1 .. MaxSegs : ~a[n].exists}
        /\ video_assets \in [1 .. MaxSegs -> PoolVideos]
        /\ video_files = PoolDisk

InitPool == PoolInputs /\ EditorIdle /\ peer = NoPeer /\ StagesIdle

SpecPool == InitPool /\ [][Next]_vars


---------------------------------------------------------------------------
(* The allocator on its own: calls of _get_available_segment, for any file *)
(* and any needed duration, on the table of an editor that was just reset. *)

\* the disks: one file of 0 s, 0.25 s, 3 s or 20 s, or two files
AllocDisks == {<<0>>, <<1>>, <<12>>, <<80>>, <<12, 80>>, <<1, 12>>}

\* the needed durations: 0.25 s, 1.5 s, 5 s and 25 s
NeededDurations == {1, 6, 20, 100}

InitAlloc ==
    /\ audio_segments = <<>>
    /\ video_assets = <<>>
    /\ video_files \in AllocDisks
    /\ EditorIdle
    /\ peer = NoPeer
    /\ StagesIdle

\* the call has returned r: the table is r.used, and the history gets the call
Called(r, video_path, needed_duration) ==
    /\ used' = r.used
    /\ acquired' = Append(acquired,
                          [video_path |-> video_path,
                           video_duration |-> video_files[video_path],
                           needed_duration |-> needed_duration,
                           start |-> r.start, actual |-> r.actual, tbl |-> used])
    /\ UNCHANGED <<inputs, clip_parts, planned_from, i, pc, caller, output, stats, report,
                   peer, texts, results, keywords, downloads, final_results>>

\* one call of _get_available_segment
GetSegment ==
    /\ Len(acquired) < MaxCalls
    /\ \E video_path \in DOMAIN video_files, needed_duration \in NeededDurations :
           Called(GetAvailableSegment(used, video_path, video_files[video_path],
                                      needed_duration),
                  video_path, needed_duration)

NextAlloc == GetSegment

SpecAlloc == InitAlloc /\ [][NextAlloc]_vars

---------------------------------------------------------------------------
(* The TTS stage: Narrator.generate_all_segments.  What the engines and    *)
(* the file system do for a text is an input: texts[k] tells whether       *)
(* generate_audio returned True, whether the output file exists after it,  *)
(* and what AudioFileClip reports for the file (Unmeasurable: it raises).  *)

Unmeasurable == -1

SynthesisOutcomes ==
    {[success |-> s, file |-> f, measured |-> m] :
        s \in BOOLEAN, f \in BOOLEAN, m \in {Unmeasurable, 0, 10}}

\* the editor has not been used and no pipeline has reported
EditorUnused ==
    /\ audio_segments = <<>>
    /\ video_assets = <<>>
    /\ video_files = <<>>
    /\ used = ResetUsedSegments(video_files)
    /\ clip_parts = <<>>
    /\ planned_from = <<>>
    /\ i = 1
    /\ caller = "render"
    /\ output = "pending"
    /\ stats = NoStats
    /\ report = "pending"
    /\ peer = NoPeer
    /\ acquired = <<>>

InitTTS ==
    /\ \E n \in 0 .. MaxTexts : texts \in [1 .. n -> SynthesisOutcomes]
    /\ results = <<>>
    /\ pc = "generating"
    /\ keywords = <<>>
    /\ downloads = <<>>
    /\ final_results = <<>>
    /\ EditorUnused

\* faulty variant of GetAudioDuration: the exception of AudioFileClip gets through
GetAudioDuration_Unhandled(measured) == measured

\* _get_audio_duration: clip.duration, or 0.0 when AudioFileClip raises
GetAudioDuration(measured) == IF measured = Unmeasurable THEN 0 ELSE measured

\* the duration generate_all_segments gives the segment of a text
SegmentDuration(text) ==
    IF text.success /\ text.file THEN GetAudioDuration(text.measured) ELSE 0

\* one iteration of `for i, text in enumerate(texts)`: index Len(results), 0-based
GenerateSegment ==
    /\ pc = "generating"
    /\ Len(results) < Len(texts)
    /\ results' = Append(results,
                         [index |-> Len(results), text |-> Len(results) + 1,
                          duration |-> SegmentDuration(texts[Len(results) + 1]),
                          exists |-> texts[Len(results) + 1].file])
    /\ UNCHANGED <<inputs, used, clip_parts, planned_from, i, pc, caller, output, stats,
                   report, peer, acquired, texts, keywords, downloads, final_results>>

\* `return results`
GenerateReturn ==
    /\ pc = "generating"
    /\ Len(results) = Len(texts)
    /\ pc' = "generated"
    /\ UNCHANGED <<inputs, used, clip_parts, planned_from, i, caller, output, stats,
                   report, peer, stages>>

NextTTS ==
    \/ GenerateSegment
    \/ GenerateReturn

SpecTTS == InitTTS /\ [][NextTTS]_vars

---------------------------------------------------------------------------
(* The asset stage: StockDownloader.get_videos_for_keywords.  A download   *)
(* (get_video_for_keyword) returns the asset of its keyword or None, or it *)
(* raises; gather(..., return_exceptions=True) collects all three.         *)

SEMAPHORE == 3      \* asyncio.Semaphore(3)

Keywords == 1 .. 4

\* the results of a task
NoneResult == [kind |-> "none", keyword |-> 0]
Raised == [kind |-> "exception", keyword |-> 0]
VideoAsset(keyword) == [kind |-> "asset", keyword |-> keyword]

RECURSIVE UniqueKeywords(_, _)
\* list(dict.fromkeys(keywords)): the keywords in the order of their first occurrence
UniqueKeywords(kws, seen) ==
    IF kws = <<>> THEN seen
    ELSE IF \E k \in DOMAIN seen : seen[k] = Head(kws)
         THEN UniqueKeywords(Tail(kws), seen)
         ELSE UniqueKeywords(Tail(kws), Append(seen, Head(kws)))

\* tasks / bounded_tasks: one per unique keyword, none started
Tasks(unique_keywords) ==
    [k \in DOMAIN unique_keywords |->
        [keyword |-> unique_keywords[k], state |-> "waiting", result |-> NoneResult]]

InitAssets ==
    /\ \E n \in 0 .. MaxKeywords : keywords \in [1 .. n -> Keywords]
    /\ downloads = Tasks(UniqueKeywords(keywords, <<>>))
    /\ final_results = <<>>
    /\ pc = "fetching"
    /\ texts = <<>>
    /\ results = <<>>
    /\ EditorUnused

\* the tasks that hold the semaphore
Running == {k \in DOMAIN downloads : downloads[k].state = "running"}

\* faulty variant of AcquireSemaphore: a task enters whatever the number inside
AcquireSemaphore_Unbounded ==
    /\ pc = "fetching"
    /\ \E k \in DOMAIN downloads :
           /\ downloads[k].state = "waiting"
           /\ downloads' = [downloads EXCEPT ![k].state = "running"]
    /\ UNCHANGED <<inputs, used, clip_parts, planned_from, i, pc, caller, output, stats,
                   report, peer, acquired, texts, results, keywords, final_results>>

\* `async with semaphore`: a task enters when fewer than 3 are inside
AcquireSemaphore ==
    /\ pc = "fetching"
    /\ Cardinality(Running) < SEMAPHORE
    /\ \E k \in DOMAIN downloads :
           /\ downloads[k].state = "waiting"
           /\ downloads' = [downloads EXCEPT ![k].state = "running"]
    /\ UNCHANGED <<inputs, used, clip_parts, planned_from, i, pc, caller, output, stats,
                   report, peer, acquired, texts, results, keywords, final_results>>

\* `return await task`: the download ends, with an asset, with None or by raising,
\* and the semaphore is released
DownloadEnds ==
    /\ pc = "fetching"
    /\ \E k \in DOMAIN downloads :
           /\ downloads[k].state = "running"
           /\ \E result \in {VideoAsset(downloads[k].keyword), NoneResult, Raised} :
                  downloads' = [downloads EXCEPT ![k].state = "done",
                                                 ![k].result = result]
    /\ UNCHANGED <<inputs, used, clip_parts, planned_from, i, pc, caller, output, stats,
                   report, peer, acquired, texts, results, keywords, final_results>>

\* faulty variant of IsVideoAsset: whatever gather collected is taken as an asset
IsVideoAsset_Always(result) == TRUE

\* isinstance(result, VideoAsset)
IsVideoAsset(result) == result.kind = "asset"

\* keyword_to_asset.get(keyword): the result of the keyword's task if it is an asset
KeywordToAsset(tasks, keyword) ==
    IF \E k \in DOMAIN tasks : tasks[k].keyword = keyword /\ IsVideoAsset(tasks[k].result)
    THEN tasks[CHOOSE k \in DOMAIN tasks :
                   tasks[k].keyword = keyword /\ IsVideoAsset(tasks[k].result)].result
    ELSE NoneResult

\* final_results: for every keyword of the input, its asset or None
FinalResults(tasks, kws) == [n \in DOMAIN kws |-> KeywordToAsset(tasks, kws[n])]

\* gather has all results: the list is built and returned
GatherReturns ==
    /\ pc = "fetching"
    /\ \A k \in DOMAIN downloads : downloads[k].state = "done"
    /\ final_results' = FinalResults(downloads, keywords)
    /\ pc' = "fetched"
    /\ UNCHANGED <<inputs, used, clip_parts, planned_from, i, caller, output, stats,
                   report, peer, acquired, texts, results, keywords, downloads>>

NextAssets ==
    \/ AcquireSemaphore
    \/ DownloadEnds
    \/ GatherReturns

SpecAssets == InitAssets /\ [][NextAssets]_vars

\* the keyword lists in ascending order: the scheduling of the tasks depends on
\* how many keywords there are and how many of them differ, not on which they are
InitAssetsFair ==
    /\ InitAssets
    /\ \A m, n \in DOMAIN keywords : m < n => keywords[m] <= keywords[n]

\* the event loop runs every task that can run: a waiting task enters a free
\* semaphore, a running download ends (the requests carry timeouts), and gather
\* returns once every task has ended
SpecAssetsFair ==
    /\ InitAssetsFair
    /\ [][NextAssets]_vars
    /\ WF_vars(AcquireSemaphore)
    /\ WF_vars(DownloadEnds)
    /\ WF_vars(GatherReturns)

---------------------------------------------------------------------------
(* Two sessions on the one editor.  `editor = StudioEditor()` is a module   *)
(* level singleton and every session's render goes through it, so the two  *)
(* sessions share the table `used`.  render_video and get_render_preview   *)
(* contain no await: on the event loop a call of either runs from its      *)
(* first line to its return before another coroutine is resumed.           *)

\* the other session: one segment, possibly over a file this session uses too
PeerSessions ==
    {[pc |-> "idle", audio_segments |-> <<a>>, video_assets |-> <<v>>,
      clip_parts |-> <<>>, output |-> "pending", report |-> "pending"] :
        a \in {AudioSegment(0, FALSE), AudioSegment(0, TRUE), AudioSegment(38, TRUE)},
        v \in {NullAsset, Asset(Len(FileDurations))}}

InitTwo ==
    /\ \E n \in 1 .. MaxSegs - 1 :
            /\ audio_segments \in [1 .. n -> ScriptAudio]
            /\ video_assets \in [1 .. n -> {NullAsset} \cup {Asset(p) : p \in Files}]
            /\ video_files = FileDurations
    /\ EditorIdle
    /\ peer \in PeerSessions
    /\ StagesIdle

\* this session is not inside render_video or get_render_preview
OutsideCall == pc \in {"idle", "done", "ended"}

\* what render_video returns for a plan: None for the empty plan, else the path
\* or, when the assembly fails, None
RenderOutputs(parts) == IF parts = <<>> THEN {"none"} ELSE {"none", "path"}

\* the table and the fields of the other session after its render_video
PeerRendered(r, out) ==
    /\ used' = r.used
    /\ peer' = [peer EXCEPT !.clip_parts = r.parts, !.output = out, !.pc = "done"]
    /\ UNCHANGED <<inputs, clip_parts, planned_from, i, pc, caller, output, stats, report,
                   stages>>

\* faulty variant of PeerRender: the other render runs in the middle of a planning run
PeerRender_Interleaved ==
    /\ peer.pc = "idle"
    /\ \E out \in {"none", "path"} :
        PeerRendered(PlanFrom(ResetUsedSegments(video_files), video_files,
                              peer.audio_segments, peer.video_assets, 1, <<>>), out)

\* the other session's render_video, from its first line to its return
PeerRender ==
    /\ peer.pc = "idle"
    /\ OutsideCall
    /\ \E out \in {"none", "path"} :
        /\ out \in RenderOutputs(PlanClipSplits(video_files, peer.audio_segments,
                                                 peer.video_assets))
        /\ PeerRendered(PlanFrom(ResetUsedSegments(video_files), video_files,
                                 peer.audio_segments, peer.video_assets, 1, <<>>), out)

\* the message run_pipeline returns, given what render_video returned if it was called
PipelineReport(audios, videos, disk, out) ==
    IF SuccessAudio(audios) = 0 THEN MsgNoAudio
    ELSE IF SuccessVideo(videos, disk) = 0 THEN MsgNoVideo
    ELSE IF out = "none" THEN MsgNoRender
    ELSE MsgSaved

\* the other session's run_pipeline returns
PeerReport ==
    /\ \/ peer.pc = "idle" /\ ~ReachesAssembly(peer.audio_segments, peer.video_assets,
                                                video_files)
       \/ peer.pc = "done" /\ ReachesAssembly(peer.audio_segments, peer.video_assets,
                                               video_files)
    /\ peer' = [peer EXCEPT
                    !.report = PipelineReport(peer.audio_segments, peer.video_assets,
                                              video_files, peer.output),
                    !.pc = "ended"]
    /\ UNCHANGED <<inputs, used, clip_parts, planned_from, i, pc, caller, output, stats,
                   report, stages>>

NextTwo ==
    \/ Next
    \/ PeerRender
    \/ PeerReport

SpecTwo == InitTwo /\ [][NextTwo]_vars

---------------------------------------------------------------------------
(* Vocabulary of the properties.                                           *)

\* the planner has returned its list
Returned == pc \in {"planned", "assembling", "done"}

\* the loop has been through index k
Processed(k) == k \in 1 .. Len(audio_segments) /\ (k < i \/ Returned)

\* the ClipParts that come from script index k
PartsOf(k) == SelectSeq(clip_parts, LAMBDA p : p.audio_path = k)

\* index k is one the planner has to skip: no audio, no asset, or no file
Skippable(k) ==
    \/ audio_segments[k].duration <= 0
    \/ k > Len(video_assets)
    \/ ~video_assets[k].present
    \/ video_assets[k].file_path \notin DOMAIN video_files

\* some instant of the file is in no claimed range
HasUnusedRange(used_ranges, video_duration) ==
    \E t \in 0 .. video_duration - 1 :
        \A k \in 1 .. Len(used_ranges) : ~(used_ranges[k][1] <= t /\ t < used_ranges[k][2])

\* the source ranges [video_start, video_start + duration) of two parts meet
SourceOverlap(p, q) ==
    /\ p.video_path = q.video_path
    /\ p.video_start < q.video_start + q.duration
    /\ q.video_start < p.video_start + p.duration

\* when part b was planned, some video of its candidate pool had an unused range
PoolHadUnused(b) ==
    \E k \in 1 .. Len(planned_from[b].pool) :
        HasUnusedRange(planned_from[b].used[planned_from[b].pool[k]],
                       video_files[planned_from[b].pool[k]])

\* the table as call n of the history left it
TableAfter(n) == IF n = Len(acquired) THEN used ELSE acquired[n + 1].tbl

\* the ranges of file c.video_path that were claimed when call c was made
ClaimedAt(c) == c.tbl[c.video_path]

\* the starts call c could be served from: 0 and the end of every claimed range
StartsAt(c) == {0} \cup {ClaimedAt(c)[k][2] : k \in DOMAIN ClaimedAt(c)}

\* call c could have been given the range at s: [s, s + needed) cut at the end of
\* the file has at least 0.5 s and meets no claimed range
Fits(c, s) ==
    /\ Min(s + c.needed_duration, c.video_duration) - s >= HALF
    /\ \A k \in DOMAIN ClaimedAt(c) :
           ~(s < ClaimedAt(c)[k][2]
             /\ ClaimedAt(c)[k][1] < Min(s + c.needed_duration, c.video_duration))

\* call c found no acceptable candidate
NoCandidate(c) == \A s \in StartsAt(c) : ~Fits(c, s)

\* the calls before call n that were served from an unused range
ServedBefore(n) == SelectSeq(SubSeq(acquired, 1, n - 1), LAMBDA c : ~NoCandidate(c))

\* the range call c was given
RangeOf(c) == <<c.start, c.start + c.actual>>

\* the ranges of file p the calls were given, in the order of the calls
RECURSIVE RangesOf(_, _)
RangesOf(calls, p) ==
    IF calls = <<>> THEN <<>>
    ELSE IF Head(calls).video_path = p
         THEN <<RangeOf(Head(calls))>> \o RangesOf(Tail(calls), p)
         ELSE RangesOf(Tail(calls), p)

\* the table that holds the ranges of the served calls before call n and no other
ServedTable(n) == [p \in DOMAIN video_files |-> RangesOf(ServedBefore(n), p)]

\* every call so far asked for d of file p
OnlyRequests(p, d) ==
    \A n \in DOMAIN acquired :
        acquired[n].video_path = p /\ acquired[n].needed_duration = d

\* the phase of run_pipeline that produced nothing, for a session that has ended
\* with the list parts and the render result out
FailedPhase(audios, videos, disk, parts, out) ==
    IF SuccessAudio(audios) = 0 THEN "audio"
    ELSE IF SuccessVideo(videos, disk) = 0 THEN "assets"
    ELSE IF parts = <<>> THEN "planner"
    ELSE IF out = "none" THEN "assembly"
    ELSE "none"

\* ... of this session and of the other one
FailedHere == FailedPhase(audio_segments, video_assets, video_files, clip_parts, output)

FailedThere ==
    FailedPhase(peer.audio_segments, peer.video_assets, video_files, peer.clip_parts,
                peer.output)

---------------------------------------------------------------------------
(* C1: two ClipParts of one plan that come from the same video file have   *)
(* disjoint source ranges, unless no video of the later part's candidate   *)
(* pool had an unused range left when it was planned.                      *)
C1_ReuseOnlyAsLastResort ==
    \A a, b \in 1 .. Len(clip_parts) :
        (a < b /\ SourceOverlap(clip_parts[a], clip_parts[b])) => ~PoolHadUnused(b)

(* C2 as stated: for every segment that is not skipped the durations of    *)
(* its ClipParts sum to MIN when A < MIN and to A otherwise.               *)
C2_DurationConserved ==
    \A k \in 1 .. Len(audio_segments) :
        (Processed(k) /\ ~Skippable(k)) =>
            SumDurations(PartsOf(k)) =
                (IF audio_segments[k].duration < MIN_CLIP THEN MIN_CLIP
                 ELSE audio_segments[k].duration)

(* C2 (amended): for every segment that is not skipped the durations of    *)
(* its ClipParts sum to MIN when A < MIN and to A otherwise, except that a *)
(* split segment cut off by the limit of 10 slices sums to at most A.      *)
C2_DurationConservedUpToCap ==
    \A k \in 1 .. Len(audio_segments) :
        (Processed(k) /\ ~Skippable(k)) =>
            IF audio_segments[k].duration < MIN_CLIP
            THEN SumDurations(PartsOf(k)) = MIN_CLIP
            ELSE IF Len(PartsOf(k)) < MAX_CLIPS
            THEN SumDurations(PartsOf(k)) = audio_segments[k].duration
            ELSE /\ Len(PartsOf(k)) = MAX_CLIPS
                 /\ SumDurations(PartsOf(k)) <= audio_segments[k].duration

\* a returned plan with an extended segment and a split segment of several parts
C2_Witness ==
    /\ Returned
    /\ \E k \in 1 .. Len(audio_segments) :
          /\ ~Skippable(k) /\ audio_segments[k].duration < MIN_CLIP
          /\ SumDurations(PartsOf(k)) = MIN_CLIP
    /\ \E k \in 1 .. Len(audio_segments) :
          /\ ~Skippable(k) /\ audio_segments[k].duration > MAX_CLIP
          /\ Len(PartsOf(k)) \in 2 .. MAX_CLIPS - 1
          /\ SumDurations(PartsOf(k)) = audio_segments[k].duration

(* C3: the planner emits no ClipPart for an index whose audio duration is  *)
(* <= 0 or whose video asset is null or has no file, and at least one for  *)
(* every other index.                                                      *)
C3_SkipSemantics ==
    \A k \in 1 .. Len(audio_segments) :
        Processed(k) => (PartsOf(k) = <<>> <=> Skippable(k))

\* three segments, the middle one without audio: parts for the first and third only
C3_Witness ==
    /\ Returned
    /\ Len(audio_segments) = 3
    /\ audio_segments[2].duration = 0
    /\ ~Skippable(1) /\ ~Skippable(3)
    /\ PartsOf(1) # <<>> /\ PartsOf(2) = <<>> /\ PartsOf(3) # <<>>

(* C4: while the planner runs, its next iteration or its return can always *)
(* be taken; the returned list is empty exactly when every index was       *)
(* skipped, and then render_video returns no output path and never reaches *)
(* the assembly.                                                           *)
C4_EmptyPlanFailsRender ==
    /\ pc = "planning" =>
          \/ i = Len(audio_segments) + 1
          \/ \E b \in {"skip_audio", "skip_video", "split", "extend", "normal"} : AtBranch(b)
    /\ Returned => (clip_parts = <<>> <=> \A k \in 1 .. Len(audio_segments) : Skippable(k))
    /\ pc = "assembling" => clip_parts # <<>>
    /\ (pc = "done" /\ caller = "render" /\ clip_parts = <<>>) => output = "none"
    /\ output = "path" => clip_parts # <<>>

\* three segments, all without audio: render_video has returned None
C4_Witness ==
    /\ pc = "done" /\ caller = "render"
    /\ Len(audio_segments) = 3
    /\ \A k \in 1 .. 3 : audio_segments[k].duration = 0
    /\ clip_parts = <<>>
    /\ output = "none"

(* C5: in the planner's list the ClipParts are in non-decreasing order of  *)
(* their script index, so the parts of one index are one contiguous run.   *)
C5_SegmentOrderKept ==
    \A a, b \in 1 .. Len(clip_parts) :
        a < b => clip_parts[a].audio_path <= clip_parts[b].audio_path

\* a returned plan where a split segment of several parts stands between the parts of
\* an earlier and of a later segment
C5_Witness ==
    /\ Returned
    /\ Len(audio_segments) = 3
    /\ PartsOf(1) # <<>> /\ Len(PartsOf(2)) >= 3 /\ PartsOf(3) # <<>>

(* C6 as stated: the parts of a segment are split parts if and only if     *)
(* A >= MAX, and a segment with A < MAX yields one part that is not split. *)
C6_SplitFromMax ==
    \A k \in 1 .. Len(audio_segments) :
        (Processed(k) /\ ~Skippable(k)) =>
            IF audio_segments[k].duration >= MAX_CLIP
            THEN \A n \in 1 .. Len(PartsOf(k)) : PartsOf(k)[n].is_split
            ELSE Len(PartsOf(k)) = 1 /\ ~PartsOf(k)[1].is_split

(* C6 (amended): the parts of a segment are split parts if and only if     *)
(* A > MAX; a segment with A <= MAX, so also one of exactly MAX, yields    *)
(* one part that is not split.                                             *)
C6_SplitAboveMax ==
    \A k \in 1 .. Len(audio_segments) :
        (Processed(k) /\ ~Skippable(k)) =>
            IF audio_segments[k].duration > MAX_CLIP
            THEN \A n \in 1 .. Len(PartsOf(k)) : PartsOf(k)[n].is_split
            ELSE Len(PartsOf(k)) = 1 /\ ~PartsOf(k)[1].is_split

\* a segment of exactly MAX has been planned as one part that is not split
C6_Witness ==
    /\ Returned
    /\ \E k \in 1 .. Len(audio_segments) :
          /\ ~Skippable(k)
          /\ audio_segments[k].duration = MAX_CLIP
          /\ Len(PartsOf(k)) = 1
          /\ ~PartsOf(k)[1].is_split

\* part n of the plan is the one part of its segment, not split, of the given duration,
\* from the segment's own video, at the start the allocator gives for that duration
IsSinglePart(n, duration) ==
    LET part == clip_parts[n]
        k == part.audio_path
    IN  /\ Len(PartsOf(k)) = 1
        /\ part.duration = duration
        /\ ~part.is_split
        /\ part.start_time = 0
        /\ part.video_path = video_assets[k].file_path
        /\ part.video_start =
             GetAvailableSegment(planned_from[n].used, video_assets[k].file_path,
                                 video_files[video_assets[k].file_path], duration).start

\* script index k has a part in the plan
HasPart(k) == \E n \in 1 .. Len(clip_parts) : clip_parts[n].audio_path = k

(* C7: normal mode: a segment with MIN <= A < MAX that is not skipped gets *)
(* exactly one ClipPart, of duration A, not split, from its own video, at  *)
(* the start the allocator returns for A seconds of that video.            *)
C7_NormalMode ==
    \A k \in 1 .. Len(audio_segments) :
        (/\ Processed(k) /\ ~Skippable(k)
         /\ MIN_CLIP <= audio_segments[k].duration
         /\ audio_segments[k].duration < MAX_CLIP) =>
            /\ HasPart(k)
            /\ \A n \in 1 .. Len(clip_parts) :
                  clip_parts[n].audio_path = k =>
                      IsSinglePart(n, audio_segments[k].duration)

\* a normal-mode part placed after footage of its video was already claimed
C7_Witness ==
    /\ Returned
    /\ \E n \in 1 .. Len(clip_parts) :
          /\ audio_segments[clip_parts[n].audio_path].duration \in MIN_CLIP .. MAX_CLIP - 1
          /\ clip_parts[n].video_start > 0
          /\ IsSinglePart(n, audio_segments[clip_parts[n].audio_path].duration)

(* C8: extend mode: a segment with 0 < A < MIN that is not skipped gets    *)
(* exactly one ClipPart, of duration MIN, not split, from its own video,   *)
(* at the start the allocator returns for MIN seconds of that video.       *)
C8_ExtendMode ==
    \A k \in 1 .. Len(audio_segments) :
        (/\ Processed(k) /\ ~Skippable(k)
         /\ 0 < audio_segments[k].duration
         /\ audio_segments[k].duration < MIN_CLIP) =>
            /\ HasPart(k)
            /\ \A n \in 1 .. Len(clip_parts) :
                  clip_parts[n].audio_path = k => IsSinglePart(n, MIN_CLIP)

\* an extend-mode part placed after footage of its video was already claimed
C8_Witness ==
    /\ Returned
    /\ \E n \in 1 .. Len(clip_parts) :
          /\ audio_segments[clip_parts[n].audio_path].duration \in 1 .. MIN_CLIP - 1
          /\ clip_parts[n].video_start > 0
          /\ clip_parts[n].duration = MIN_CLIP
          /\ IsSinglePart(n, MIN_CLIP)

(* C9: every ClipPart of every plan has a duration > 0.                    *)
C9_PositiveDurations ==
    \A n \in 1 .. Len(clip_parts) : clip_parts[n].duration > 0

\* a returned plan holding a split part from the fallback of the split loop (a slice no
\* video could serve), next to a split part served by the allocator
C9_Witness ==
    /\ Returned
    /\ \E n, m \in 1 .. Len(clip_parts) :
          /\ clip_parts[n].is_split /\ clip_parts[n].duration < HALF
          /\ clip_parts[m].is_split /\ clip_parts[m].duration = MAX_CLIP

(* C10: a segment whose narration audio file is absent is skipped: no      *)
(* ClipPart is emitted for it, whatever duration its AudioUnit reports.    *)
C10_AbsentAudioSkipped ==
    \A k \in 1 .. Len(audio_segments) :
        (Processed(k) /\ ~audio_segments[k].exists) => PartsOf(k) = <<>>

\* C11: when two sessions render on the one editor, under every interleaving
\* the event loop allows, each render returns the list the planner computes from
\* that session's inputs alone on a fresh table.
C11_RendersDoNotInterfere ==
    /\ Returned => clip_parts = PlanClipSplits(video_files, audio_segments, video_assets)
    /\ peer.pc = "done" =>
           peer.clip_parts = PlanClipSplits(video_files, peer.audio_segments,
                                            peer.video_assets)

\* the other session rendered first and left its claims on a file that this
\* session's planning run, now returned, used as well
C11_Witness ==
    /\ pc = "planned" /\ caller = "render"
    /\ peer.pc = "done"
    /\ \E m \in DOMAIN clip_parts, n \in DOMAIN peer.clip_parts :
           clip_parts[m].video_path = peer.clip_parts[n].video_path

\* C12: the table is empty when a planning run starts, and whatever calls came
\* before on this editor, the list a run returns is the one the planner computes
\* from the run's inputs alone (so a render after a preview plans the same list).
C12_PlanIsFunctionOfInputs ==
    /\ (pc = "planning" /\ i = 1) => \A p \in DOMAIN used : used[p] = <<>>
    /\ pc = "planned" =>
           clip_parts = PlanClipSplits(video_files, audio_segments, video_assets)

\* a render planned its list after a preview had left claims of several parts
C12_Witness ==
    /\ pc = "planned" /\ caller = "render"
    /\ stats # NoStats
    /\ stats.total_clip_parts >= 2
    /\ Len(clip_parts) = stats.total_clip_parts

---------------------------------------------------------------------------
\* C13: on a fresh table, k requests of d (d >= 0.5 s) on one file of length
\* k*d are given [0,d), [d,2d), ..., [(k-1)d, k*d) in this order; every request
\* after them is given (0, d), and the table keeps exactly those k ranges.
C13_TilesThenReuses ==
    \A p \in DOMAIN video_files, d \in NeededDurations, k \in 1 .. MaxCalls :
        (d >= HALF /\ video_files[p] = k * d /\ OnlyRequests(p, d)) =>
            /\ \A n \in DOMAIN acquired :
                   /\ acquired[n].actual = d
                   /\ acquired[n].start = IF n <= k THEN (n - 1) * d ELSE 0
            /\ used[p] = [n \in 1 .. Min(Len(acquired), k) |-> <<(n - 1) * d, n * d>>]
            /\ \A q \in DOMAIN video_files \ {p} : used[q] = <<>>

\* the 20 s file after five requests of 5 s: four slices and one reuse
C13_Witness ==
    /\ video_files = <<80>>
    /\ OnlyRequests(1, 20)
    /\ Len(acquired) = 5

---------------------------------------------------------------------------
\* C14: a call that finds no acceptable candidate returns (0, min(needed, total))
\* and leaves every file's claimed ranges as they were; every call is made on,
\* and leaves, the table that holds only the ranges of the served calls.
C14_LastResortLeavesTable ==
    \A n \in DOMAIN acquired :
        /\ NoCandidate(acquired[n]) =>
               /\ acquired[n].start = 0
               /\ acquired[n].actual =
                      Min(acquired[n].needed_duration, acquired[n].video_duration)
               /\ TableAfter(n) = acquired[n].tbl
        /\ acquired[n].tbl = ServedTable(n)
        /\ TableAfter(n) = ServedTable(n + 1)

\* a request of at least 0.5 s found its file used up, and a later request was
\* served from an unused range
C14_Witness ==
    \E n, m \in DOMAIN acquired :
        /\ n < m
        /\ NoCandidate(acquired[n])
        /\ acquired[n].needed_duration >= HALF
        /\ acquired[n].video_duration >= HALF
        /\ ~NoCandidate(acquired[m])

---------------------------------------------------------------------------
\* C15: a request longer than a file of at least 0.5 s that has no claim returns
\* (0, total) and records the whole file; on a file shorter than 0.5 s every
\* request returns (0, min(needed, total)) and records nothing.
C15_WholeFileOrNothing ==
    \A n \in DOMAIN acquired :
        /\ (/\ ClaimedAt(acquired[n]) = <<>>
            /\ acquired[n].video_duration >= HALF
            /\ acquired[n].needed_duration > acquired[n].video_duration) =>
               /\ acquired[n].start = 0
               /\ acquired[n].actual = acquired[n].video_duration
               /\ TableAfter(n) =
                      [acquired[n].tbl EXCEPT ![acquired[n].video_path] =
                          <<<<0, acquired[n].video_duration>>>>]
        /\ acquired[n].video_duration < HALF =>
               /\ acquired[n].start = 0
               /\ acquired[n].actual =
                      Min(acquired[n].needed_duration, acquired[n].video_duration)
               /\ TableAfter(n) = acquired[n].tbl

\* both cases in one history: a 0.25 s file, and a 3 s file asked for 5 s
C15_Witness ==
    \E n, m \in DOMAIN acquired :
        /\ acquired[n].video_duration < HALF
        /\ acquired[m].video_duration >= HALF
        /\ ClaimedAt(acquired[m]) = <<>>
        /\ acquired[m].needed_duration > acquired[m].video_duration

---------------------------------------------------------------------------
\* C16: split planning ends: no segment ever has more than max_clips = 10 parts;
\* a planning run always has a step to take, and each step either moves on to the
\* next index, which never passes the end of the script, or returns the list.
C16_SplitPlanningTerminates ==
    /\ [](\A k \in 1 .. Len(audio_segments) : Len(PartsOf(k)) <= MAX_CLIPS)
    /\ [](pc = "planning" =>
             /\ i <= Len(audio_segments) + 1
             /\ \/ i = Len(audio_segments) + 1
                \/ \E b \in {"skip_audio", "skip_video", "split", "extend", "normal"} :
                       AtBranch(b))
    /\ [][pc = "planning" =>
             \/ pc' = "planning" /\ i' = i + 1
             \/ pc' = "planned" /\ i = Len(audio_segments) + 1 /\ i' = i]_vars

\* a split segment was cut off at the limit, over a file shorter than 0.5 s, and
\* the run has returned
C16_Witness ==
    /\ pc = "planned"
    /\ \E k \in 1 .. Len(audio_segments) :
           /\ Len(PartsOf(k)) = MAX_CLIPS
           /\ video_files[PartsOf(k)[1].video_path] < HALF

---------------------------------------------------------------------------
\* C17: what get_render_preview returns is computed from the list the planner
\* gives render_video on the same inputs: total_segments is the number of script
\* segments, total_clip_parts the number of parts, total_duration the sum of their
\* durations, split_clips the number of parts with is_split; a preview never
\* reaches the assembly and never yields an output file.
C17_PreviewMatchesRenderPlan ==
    /\ (pc = "done" /\ caller = "preview") =>
           /\ output = "preview"
           /\ clip_parts = PlanClipSplits(video_files, audio_segments, video_assets)
           /\ stats.total_segments = Len(audio_segments)
           /\ stats.total_clip_parts = Len(clip_parts)
           /\ stats.total_duration = SumDurations(clip_parts)
           /\ stats.split_clips =
                  Cardinality({n \in DOMAIN clip_parts : clip_parts[n].is_split})
    /\ (Returned /\ caller = "render" /\ stats # NoStats) =>
           /\ stats.total_clip_parts = Len(clip_parts)
           /\ stats.total_duration = SumDurations(clip_parts)
    /\ caller = "preview" => pc # "assembling" /\ output \notin {"path", "none"}

\* a preview has returned the statistics of a plan with split and unsplit parts
C17_Witness ==
    /\ pc = "done" /\ caller = "preview"
    /\ stats.split_clips > 0
    /\ stats.split_clips < stats.total_clip_parts
    /\ stats.total_clip_parts > stats.total_segments

---------------------------------------------------------------------------
\* C18: the outcome a failed pipeline reports tells the phase that produced
\* nothing: two sessions that failed in different phases among audio, assets and
\* planner report different outcomes, and a session whose planner produced no
\* part reports another outcome than one whose assembly failed.
C18_OutcomeNamesPhase ==
    (/\ pc = "ended" /\ peer.pc = "ended"
     /\ FailedHere # FailedThere
     /\ \/ {FailedHere, FailedThere} \subseteq {"audio", "assets", "planner"}
        \/ {FailedHere, FailedThere} = {"planner", "assembly"})
    => report # peer.report

---------------------------------------------------------------------------
\* C19: the TTS stage returns one AudioSegment per text, the segment of text i
\* at position i with index i, and a text whose synthesis failed (the engines
\* failed, the file is not there, or its duration cannot be measured) has
\* duration 0; the loop never stops before the last text.
C19_OneSegmentPerText ==
    /\ Len(results) <= Len(texts)
    /\ pc = "generated" => Len(results) = Len(texts)
    /\ \A k \in DOMAIN results :
           /\ results[k].index = k - 1
           /\ results[k].text = k
           /\ (\/ ~texts[k].success
               \/ ~texts[k].file
               \/ texts[k].measured = Unmeasurable) => results[k].duration = 0
           /\ results[k].duration \in {0, texts[k].measured}

\* the stage has returned a list with a measured segment after two failed ones:
\* one whose engines failed, one whose file could not be measured
C19_Witness ==
    /\ pc = "generated"
    /\ Len(results) = 3
    /\ ~texts[1].success
    /\ texts[2].success /\ texts[2].file /\ texts[2].measured = Unmeasurable
    /\ results[3].duration > 0

---------------------------------------------------------------------------
\* C20: the asset stage returns one entry per keyword, in the order of the
\* keywords: entry n is the asset that the download of keywords[n] returned, or
\* null when that download returned None or raised; so equal keywords get equal
\* entries.
C20_OneEntryPerKeyword ==
    pc = "fetched" =>
        /\ Len(final_results) = Len(keywords)
        /\ \A n \in DOMAIN keywords :
               \E k \in DOMAIN downloads :
                   /\ downloads[k].keyword = keywords[n]
                   /\ final_results[n] =
                          IF downloads[k].result.kind = "asset"
                          THEN VideoAsset(keywords[n])
                          ELSE NoneResult
        /\ \A n, m \in DOMAIN keywords :
               keywords[n] = keywords[m] => final_results[n] = final_results[m]

\* a list was returned for keywords with a repeated one, where one download gave
\* an asset, one gave None and one raised
C20_Witness ==
    /\ pc = "fetched"
    /\ \E n, m \in DOMAIN keywords : n # m /\ keywords[n] = keywords[m]
    /\ \E k \in DOMAIN downloads : downloads[k].result = Raised
    /\ \E k \in DOMAIN downloads : downloads[k].result = NoneResult
    /\ \E n \in DOMAIN final_results : final_results[n].kind = "asset"

---------------------------------------------------------------------------
\* C21: a call that has an acceptable candidate returns the lowest start among 0
\* and the ends of the file's claimed ranges whose range, cut at the end of the
\* file, has at least 0.5 s and meets no claimed range; it appends exactly that
\* range to the claims of the file and leaves the claims of the other files.
C21_FirstFittingCandidate ==
    \A n \in DOMAIN acquired :
        ~NoCandidate(acquired[n]) =>
            /\ acquired[n].start \in StartsAt(acquired[n])
            /\ Fits(acquired[n], acquired[n].start)
            /\ \A s \in StartsAt(acquired[n]) :
                   Fits(acquired[n], s) => acquired[n].start <= s
            /\ acquired[n].actual =
                   Min(acquired[n].start + acquired[n].needed_duration,
                       acquired[n].video_duration) - acquired[n].start
            /\ TableAfter(n) =
                   [acquired[n].tbl EXCEPT ![acquired[n].video_path] =
                       Append(@, RangeOf(acquired[n]))]

\* a call was served behind two claims of its file, cut at the end of the file,
\* while the other file had a claim too
C21_Witness ==
    \E n \in DOMAIN acquired :
        /\ Len(ClaimedAt(acquired[n])) = 2
        /\ ~NoCandidate(acquired[n])
        /\ acquired[n].actual < acquired[n].needed_duration
        /\ \E q \in DOMAIN video_files \ {acquired[n].video_path} :
               acquired[n].tbl[q] # <<>>

---------------------------------------------------------------------------
\* C25: after any sequence of calls, the claimed ranges of every file are
\* pairwise non-overlapping, and each has 0 <= start < end <= the file's length.
C25_ClaimsDisjointInsideFile ==
    \A p \in DOMAIN used :
        /\ \A k \in DOMAIN used[p] :
               /\ 0 <= used[p][k][1]
               /\ used[p][k][1] < used[p][k][2]
               /\ used[p][k][2] <= video_files[p]
        /\ \A k, m \in DOMAIN used[p] :
               k # m => \/ used[p][k][2] <= used[p][m][1]
                        \/ used[p][m][2] <= used[p][k][1]

\* a file with four claims, the last of them cut at the end of the file
C25_Witness ==
    \E p \in DOMAIN used :
        /\ Len(used[p]) = 4
        /\ \E k \in DOMAIN used[p] : used[p][k][2] = video_files[p]
        /\ \E n \in DOMAIN acquired :
               acquired[n].video_path = p /\ 0 < acquired[n].actual
               /\ acquired[n].actual < acquired[n].needed_duration

---------------------------------------------------------------------------
\* C28: after any sequence of calls, the claimed ranges of every file, taken in
\* ascending order, start at 0 and follow each other without a hole, and the
\* last one ends at or before the end of the file.
C28_ClaimsArePrefix ==
    \A p \in DOMAIN used :
        /\ used[p] # <<>> => SortedRanges(used[p])[1][1] = 0
        /\ \A k \in 1 .. Len(used[p]) - 1 :
               SortedRanges(used[p])[k + 1][1] = SortedRanges(used[p])[k][2]
        /\ \A k \in DOMAIN used[p] : SortedRanges(used[p])[k][2] <= video_files[p]

\* a file with three claims of different lengths that does not fill the file
C28_Witness ==
    \E p \in DOMAIN used :
        /\ Len(used[p]) = 3
        /\ used[p][3][2] < video_files[p]
        /\ used[p][1][2] - used[p][1][1] # used[p][2][2] - used[p][2][1]

---------------------------------------------------------------------------
\* C22: no slice of a split segment is shorter than MIN, also not the last one;
\* stated for slices cut from a file at least as long as the segment's audio.
C22_NoSliceBelowMin ==
    \A b \in DOMAIN clip_parts :
        (/\ clip_parts[b].is_split
         /\ video_files[clip_parts[b].video_path]
                >= audio_segments[clip_parts[b].audio_path].duration)
            => clip_parts[b].duration >= MIN_CLIP

---------------------------------------------------------------------------
\* C23: no ClipPart of a split segment lasts longer than MAX.
C23_NoSliceAboveMax ==
    \A b \in DOMAIN clip_parts :
        clip_parts[b].is_split => clip_parts[b].duration <= MAX_CLIP

\* a plan with a slice of exactly MAX, a slice cut short by the end of its file
\* and a slice placed by the fallback
C23_Witness ==
    /\ Returned
    /\ \E b \in DOMAIN clip_parts :
           clip_parts[b].is_split /\ clip_parts[b].duration = MAX_CLIP
    /\ \E b \in DOMAIN clip_parts :
           /\ clip_parts[b].is_split
           /\ clip_parts[b].duration < planned_from[b].clip_duration
    /\ \E b \in DOMAIN clip_parts :
           clip_parts[b].is_split /\ ~planned_from[b].found

---------------------------------------------------------------------------
\* C27: the split parts of a segment tile its audio: the first has start_time 0
\* and each later one starts where the one before it ends; a part that is not
\* split has start_time 0.
C27_PartsTileAudio ==
    /\ \A b \in DOMAIN clip_parts :
           ~clip_parts[b].is_split => clip_parts[b].start_time = 0
    /\ \A k \in 1 .. Len(audio_segments) :
           /\ PartsOf(k) # <<>> => PartsOf(k)[1].start_time = 0
           /\ \A n \in 1 .. Len(PartsOf(k)) - 1 :
                  /\ PartsOf(k)[n + 1].start_time =
                         PartsOf(k)[n].start_time + PartsOf(k)[n].duration
                  /\ PartsOf(k)[n + 1].start_time > PartsOf(k)[n].start_time

\* a plan with a split segment of three or more parts, one of them cut short by
\* the end of its file, behind a segment that is not split
C27_Witness ==
    /\ Returned
    /\ \E b \in DOMAIN clip_parts : ~clip_parts[b].is_split
    /\ \E b \in DOMAIN clip_parts :
           /\ clip_parts[b].is_split
           /\ clip_parts[b].start_time > 0
           /\ clip_parts[b].duration < planned_from[b].clip_duration
           /\ Len(PartsOf(clip_parts[b].audio_path)) >= 3
           /\ b < Len(clip_parts)
           /\ clip_parts[b + 1].audio_path = clip_parts[b].audio_path

---------------------------------------------------------------------------
\* C30: the duration asked for every slice is min(MAX, remaining audio), the
\* clamp to MIN never changing it; a split segment of audio A whose slices all
\* got the duration asked for has min(ceil(A / MAX), 10) parts, each of MAX
\* except a last one holding the remainder.
C30_ClampNeverFires ==
    /\ 0 < MIN_CLIP /\ MIN_CLIP < MAX_CLIP
    /\ \A b \in DOMAIN clip_parts :
           clip_parts[b].is_split =>
               planned_from[b].clip_duration = Min(MAX_CLIP, planned_from[b].remaining)
    /\ \A k \in 1 .. Len(audio_segments) :
           (/\ Processed(k)
            /\ PartsOf(k) # <<>>
            /\ \A b \in DOMAIN clip_parts :
                   (clip_parts[b].audio_path = k /\ clip_parts[b].is_split)
                       => clip_parts[b].duration = planned_from[b].clip_duration
            /\ PartsOf(k)[1].is_split)
               => /\ Len(PartsOf(k)) =
                         Min((audio_segments[k].duration + MAX_CLIP - 1) \div MAX_CLIP,
                             MAX_CLIPS)
                  /\ \A n \in 1 .. Len(PartsOf(k)) - 1 : PartsOf(k)[n].duration = MAX_CLIP
                  /\ PartsOf(k)[Len(PartsOf(k))].duration =
                         Min(MAX_CLIP,
                             audio_segments[k].duration - (Len(PartsOf(k)) - 1) * MAX_CLIP)

\* a segment that was cut into MAX, MAX and a remainder below MIN, every slice
\* having got the duration asked for
C30_Witness ==
    /\ Returned
    /\ Len(clip_parts) = 3
    /\ \A b \in DOMAIN clip_parts :
           /\ clip_parts[b].is_split
           /\ clip_parts[b].duration = planned_from[b].clip_duration
    /\ clip_parts[3].duration < MIN_CLIP
    /\ clip_parts[1].duration = MAX_CLIP

---------------------------------------------------------------------------
\* C29: every ClipPart lies inside its source video: video_start + duration is
\* at most the duration of the file at video_path, in every mode.
C29_PartsInsideSource ==
    \A b \in DOMAIN clip_parts :
        clip_parts[b].video_start + clip_parts[b].duration
            <= video_files[clip_parts[b].video_path]

\* C29 (amended): the range the allocator answered lies inside the file; a split
\* part that took the allocator's answer lies inside its file; a part that is
\* not split lies inside its file exactly when the allocator's range was as long
\* as the duration asked for.
C29_AllocatedRangeInsideSource ==
    \A b \in DOMAIN clip_parts :
        /\ planned_from[b].found =>
               clip_parts[b].video_start
                   + Min(clip_parts[b].duration, planned_from[b].actual)
                   <= video_files[clip_parts[b].video_path]
        /\ (clip_parts[b].is_split /\ planned_from[b].found) =>
               clip_parts[b].video_start + clip_parts[b].duration
                   <= video_files[clip_parts[b].video_path]
        /\ ~clip_parts[b].is_split =>
               (clip_parts[b].video_start + clip_parts[b].duration
                    <= video_files[clip_parts[b].video_path])
               <=> (planned_from[b].actual = planned_from[b].clip_duration)

\* a plan with a part in normal mode that runs past the end of its file from a
\* start behind 0, and a slice that was cut short to stay inside its file
C29_Witness ==
    /\ Returned
    /\ \E b \in DOMAIN clip_parts :
           /\ ~clip_parts[b].is_split
           /\ clip_parts[b].video_start > 0
           /\ clip_parts[b].video_start + clip_parts[b].duration
                  > video_files[clip_parts[b].video_path]
    /\ \E b \in DOMAIN clip_parts :
           /\ clip_parts[b].is_split
           /\ planned_from[b].found
           /\ clip_parts[b].duration < planned_from[b].clip_duration

---------------------------------------------------------------------------
\* vocabulary of C24

\* script index j holds a video whose file exists
ValidAt(j) == video_assets[j].present /\ video_assets[j].file_path \in DOMAIN video_files

\* the place of file p in the order: the later script indices in index order
\* first, then the indices of the whole script
PoolRank(p, k) ==
    IF \E j \in k + 1 .. Len(video_assets) : ValidAt(j) /\ video_assets[j].file_path = p
    THEN CHOOSE j \in k + 1 .. Len(video_assets) :
             /\ ValidAt(j) /\ video_assets[j].file_path = p
             /\ \A m \in k + 1 .. j - 1 : ~(ValidAt(m) /\ video_assets[m].file_path = p)
    ELSE Len(video_assets)
         + (CHOOSE j \in 1 .. Len(video_assets) :
                /\ ValidAt(j) /\ video_assets[j].file_path = p
                /\ \A m \in 1 .. j - 1 : ~(ValidAt(m) /\ video_assets[m].file_path = p))

\* the video the slice of part b tried at its attempt number j (from 0)
TriedAt(b, j) ==
    planned_from[b].pool[((planned_from[b].video_idx + j) % Len(planned_from[b].pool)) + 1]

\* what the allocator answered the slice of part b for file p
AnswerFor(b, p) ==
    GetAvailableSegment(planned_from[b].used, p, video_files[p],
                        planned_from[b].clip_duration)

\* part b+1 is the next slice of the segment of part b
NextSlice(b) ==
    /\ b + 1 \in DOMAIN clip_parts
    /\ clip_parts[b + 1].is_split
    /\ clip_parts[b + 1].audio_path = clip_parts[b].audio_path

\* the pool of split part b: existing files, none twice, the valid videos of the
\* script, the segment's own video first and the others in the order of PoolRank
PoolInOrder(b) ==
    /\ \A n \in DOMAIN planned_from[b].pool :
           planned_from[b].pool[n] \in DOMAIN video_files
    /\ \A m, n \in DOMAIN planned_from[b].pool :
           m # n => planned_from[b].pool[m] # planned_from[b].pool[n]
    /\ {planned_from[b].pool[n] : n \in DOMAIN planned_from[b].pool}
           = {video_assets[j].file_path : j \in {m \in DOMAIN video_assets : ValidAt(m)}}
    /\ planned_from[b].pool[1] = video_assets[clip_parts[b].audio_path].file_path
    /\ \A m, n \in 2 .. Len(planned_from[b].pool) :
           m < n => PoolRank(planned_from[b].pool[m], clip_parts[b].audio_path)
                        < PoolRank(planned_from[b].pool[n], clip_parts[b].audio_path)

\* split part b took the first answer of at least 0.5 s on its way round the pool
TookFirstAnswer(b) ==
    \E j \in 0 .. 2 * Len(planned_from[b].pool) - 1 :
        /\ clip_parts[b].video_path = TriedAt(b, j)
        /\ Found(AnswerFor(b, TriedAt(b, j)).actual)
        /\ \A m \in 0 .. j - 1 : ~Found(AnswerFor(b, TriedAt(b, m)).actual)
        /\ clip_parts[b].video_start = AnswerFor(b, TriedAt(b, j)).start
        /\ NextSlice(b) => planned_from[b + 1].video_idx = planned_from[b].video_idx + j + 1

\* split part b was placed by the fallback: no video of the pool gave an answer
\* of at least 0.5 s
PlacedAsLastResort(b) ==
    /\ \A n \in DOMAIN planned_from[b].pool :
           ~Found(AnswerFor(b, planned_from[b].pool[n]).actual)
    /\ clip_parts[b].video_path = planned_from[b].pool[1]
    /\ clip_parts[b].video_start = 0
    /\ NextSlice(b) => planned_from[b + 1].video_idx
                           = planned_from[b].video_idx + 2 * Len(planned_from[b].pool)

---------------------------------------------------------------------------
\* task k of the asset stage is in state st
TaskIs(k, st) == k \in DOMAIN downloads /\ downloads[k].state = st

\* C26: at no moment are more than 3 downloads running, whatever the number of
\* keywords; a task goes from waiting to running and from running to ended,
\* never otherwise, and the task of every keyword eventually ends, after which
\* the stage returns.
C26_AtMostThreeAndNoStarvation ==
    /\ [](Cardinality(Running) <= SEMAPHORE)
    /\ [][\A k \in DOMAIN downloads :
              downloads'[k].state # downloads[k].state =>
                  \/ downloads[k].state = "waiting" /\ downloads'[k].state = "running"
                  \/ downloads[k].state = "running" /\ downloads'[k].state = "done"]_vars
    /\ \A k \in 1 .. MaxKeywords : TaskIs(k, "waiting") ~> TaskIs(k, "done")
    /\ <>(pc = "fetched")

\* the semaphore is full and a task waits for it
C26_Witness ==
    /\ Cardinality(Running) = SEMAPHORE
    /\ \E k \in DOMAIN downloads : downloads[k].state = "waiting"

====
